---- MODULE Spec2Model ----
(***************************************************************************)
(* A model of bassosimone/getoptx: the flat option parser wrapper          *)
(* (parserWrapper), the positional arguments checker, the tree of          *)
(* CommandParser nodes built by Command, Subcommand and LeafSubcommand,    *)
(* and the subcommand resolution CommandParser.Getopt / getoptall with its *)
(* help rewrite and help rendering.                                        *)
(*                                                                         *)
(* Go values are represented as follows.                                   *)
(*  - a string is a TLA+ string; where the code compares strings with <,   *)
(*    the comparison is made on the string's bytes (StrBytes);             *)
(*  - an option record (options interface{}) is [type, ref]: the Go type   *)
(*    of the pointed struct and the identity of the pointer;               *)
(*  - a *CommandParser is the path of child indexes leading to it from the *)
(*    root (nodes are not shared between parents); its fields other than   *)
(*    help are in the nested record tree, its help field is help[ptr];     *)
(*  - an error is [kind, wraps]; a *SelectedCommand is [nil, options,      *)
(*    args];                                                               *)
(*  - os.Stdout and os.Stderr are the sequences of what was written to     *)
(*    them since the current top-level call of Getopt began.               *)
(* The values stored in the fields of the caller's option structs are not  *)
(* part of the model (every declared option is a bool flag).               *)
(***************************************************************************)
EXTENDS Integers, Sequences, FiniteSets, TLC

\* The largest number of arguments, program name included, of a call of
\* Getopt made by the caller.
MaxArgv == 3

\* The largest number of calls of Getopt the caller makes on one tree.
MaxCalls == 2

\* math.MaxInt (of a 32-bit build; the checker's integers are 32 bits wide).
MaxInt == 2147483647

----------------------------------------------------------------------------
(* Strings *)

\* The bytes of the strings that the code compares with <.
StrBytes(s) ==
  CASE s = "help" -> <<104, 101, 108, 112>>
    [] s = "list" -> <<108, 105, 115, 116>>
    [] s = "run"  -> <<114, 117, 110>>
    [] s = "prog" -> <<112, 114, 111, 103>>
    [] OTHER      -> <<>>

RECURSIVE BytesLess(_, _)
BytesLess(a, b) ==
  IF a = <<>> THEN b # <<>>
  ELSE IF b = <<>> THEN FALSE
  ELSE IF Head(a) < Head(b) THEN TRUE
  ELSE IF Head(a) > Head(b) THEN FALSE
  ELSE BytesLess(Tail(a), Tail(b))

\* Go's a < b on strings.
StrLess(a, b) == BytesLess(StrBytes(a), StrBytes(b))

\* os.Args[0]
ProgName == "prog"

----------------------------------------------------------------------------
(* Errors *)

NoErr == [kind |-> "nil", wraps |-> "nil"]
NewError(msg) == [kind |-> msg, wraps |-> "nil"]
ErrTooManyPositionalArguments == NewError("too many positional arguments")
ErrTooFewPositionalArguments == NewError("too few positional arguments")
ErrNoSuchSubcommand == NewError("no such subcommand")
\* fmt.Errorf("%s: for command %s: %w", cmd, name, err)
WrapForCommand(err) == [kind |-> "for command", wraps |-> err.kind]
\* errors.Is(err, target)
ErrorsIs(err, target) == err = target \/ err.wraps = target.kind

----------------------------------------------------------------------------
(* Option structs: the Go types of the option records and their tagged     *)
(* fields. A tag that is absent is the empty string; the short tag is      *)
(* given by its bytes.                                                     *)

Field(name, doc, short, required) ==
  [name |-> name, doc |-> doc, short |-> short, required |-> required]

StructFields(type) ==
  CASE type = "VerboseOptions" ->
         << Field("Verbose", "runs in verbose mode", <<118>>, "") >>
    [] type = "RequiredOptions" ->
         << Field("Input", "sets the URL to measure", <<>>, "true") >>
    [] type = "OwnHelpOptions" ->
         << Field("Help", "prints this help message", <<>>, "") >>
    [] type = "UndocumentedOptions" ->
         << Field("Verbose", "", <<118>>, "") >>
    [] type = "EmbeddingOptions" ->
         << Field("Verbose", "runs in verbose mode", <<118>>, ""),
            Field("Run", "-", <<>>, "") >>
    [] type = "HostOptions" ->           \* short:"h"
         << Field("Host", "sets the host to use", <<104>>, "") >>
    [] type = "SkippedOptions" ->        \* doc:"-" short:"ab" required:"true"
         << Field("Run", "-", <<97, 98>>, "true"),
            Field("Verbose", "runs in verbose mode", <<118>>, "") >>
    [] type = "UndocumentedLastOptions" ->
         << Field("Verbose", "runs in verbose mode", <<118>>, ""),
            Field("Input", "", <<>>, "") >>
    [] type = "TwoByteShortOptions" ->   \* short:"ab"
         << Field("Batch", "emits JSON formatted logs", <<97, 98>>, "") >>
    [] type = "AccentedShortOptions" ->  \* short:"\u00e9", two bytes in UTF-8
         << Field("Batch", "emits JSON formatted logs", <<195, 169>>, "") >>
    [] type = "HighByteShortOptions" ->  \* short:"\xe9", one byte
         << Field("Batch", "emits JSON formatted logs", <<233>>, "") >>
    [] type = "ShortThenUndocumentedOptions" ->
         << Field("Batch", "emits JSON formatted logs", <<97, 98>>, ""),
            Field("Verbose", "", <<>>, "") >>
    [] OTHER -> <<>>   \* NoOptions, subcommandHelp, HasPrintedHelp: no field

\* strcase.ToKebab on the field names in use.
ToKebab(fieldName) ==
  CASE fieldName = "Verbose" -> "verbose"
    [] fieldName = "Input"   -> "input"
    [] fieldName = "Help"    -> "help"
    [] fieldName = "Run"     -> "run"
    [] fieldName = "Host"    -> "host"
    [] fieldName = "Batch"   -> "batch"
    [] OTHER                 -> fieldName

Options(type, ref) == [type |-> type, ref |-> ref]
\* &subcommandHelp{}
SubcommandHelpRecord == Options("subcommandHelp", "internal-help")
\* &HasPrintedHelp{}
HasPrintedHelpRecord == Options("HasPrintedHelp", "printed-help")

----------------------------------------------------------------------------
(* positionalArgumentsChecker and the Config values *)

newPositionalArgumentsChecker == [minArgs |-> -1, maxArgs |-> MaxInt]

\* A Config is [config, minArgs, maxArgs, name]: its Go type and the fields
\* of that type (the others are zero).  The name of setProgramName, which
\* getoptall builds with strings.Join, is the sequence of the joined words.
MinMaxPositionalArguments(min, max) ==
  [config |-> "minMaxPositionalArguments", minArgs |-> min, maxArgs |-> max,
   name |-> ""]
NoPositionalArguments == MinMaxPositionalArguments(0, 0)
AtLeastOnePositionalArgument == MinMaxPositionalArguments(1, MaxInt)
JustOnePositionalArgument == MinMaxPositionalArguments(1, 1)
SetProgramName(name) ==
  [config |-> "setProgramName", minArgs |-> 0, maxArgs |-> 0, name |-> name]
SetPositionalArgumentsPlaceholder(name) ==
  [config |-> "setPositionalArgumentsPlaceholder", minArgs |-> 0,
   maxArgs |-> 0, name |-> name]

\* A check that also refuses the minimum itself
check_RefusingMin(pac, count) ==
  IF count <= pac.minArgs THEN ErrTooFewPositionalArguments
  ELSE IF count > pac.maxArgs THEN ErrTooManyPositionalArguments
  ELSE NoErr

\* positionalArgumentsChecker.check with count = p.NArgs()
check(pac, count) ==
  IF count < pac.minArgs THEN ErrTooFewPositionalArguments
  ELSE IF count > pac.maxArgs THEN ErrTooManyPositionalArguments
  ELSE NoErr

----------------------------------------------------------------------------
(* parserWrapper: the wrapper of the flat parser (getopt.Set).  A          *)
(* registered getopt.Option is [long, short, target, mandatory]: short is  *)
(* the rune of the short name (0 for none) and target tells whether the    *)
(* option writes a field of the caller's struct or a help cell.            *)

NoDocs == [n \in {} |-> ""]

NilParser(err) ==
  [err |-> err, set |-> <<>>, docs |-> NoDocs,
   pac |-> newPositionalArgumentsChecker, required |-> {},
   program |-> <<>>, parameters |-> ""]

\* Config.visit, for each of the three kinds of Config
visit(config, pw) ==
  CASE config.config = "minMaxPositionalArguments" ->
         [pw EXCEPT !.pac = [minArgs |-> config.minArgs,
                             maxArgs |-> config.maxArgs]]
    [] config.config = "setProgramName" ->
         IF config.name # <<>> THEN [pw EXCEPT !.program = config.name] ELSE pw
    [] config.config = "setPositionalArgumentsPlaceholder" ->
         IF config.name # "" THEN [pw EXCEPT !.parameters = config.name]
         ELSE pw
    [] OTHER -> pw

RECURSIVE applyConfigs(_, _)
applyConfigs(configs, pw) ==
  IF configs = <<>> THEN pw
  ELSE applyConfigs(Tail(configs), visit(Head(configs), pw))

\* utf8.RuneError, what utf8.DecodeRune returns for a byte that does not
\* begin a valid encoding
RuneError == 65533

\* A decoding that takes the byte for the rune
DecodeRune_Byte(bytes) == bytes[1]

\* utf8.DecodeRune([]byte(shortName)) for the one-byte strings that pass the
\* test on len(shortName)
DecodeRune(bytes) == IF bytes[1] < 128 THEN bytes[1] ELSE RuneError

\* A loop that takes "-" for the documentation of the field
RECURSIVE registerFields_NoSkip(_, _)
registerFields_NoSkip(fields, pw) ==
  IF fields = <<>> THEN pw
  ELSE
    LET f == Head(fields) IN
    IF f.doc = ""
      THEN NilParser(NewError("there is a field without documentation"))
    ELSE IF f.short # <<>> /\ Len(f.short) # 1
      THEN NilParser(NewError(
             "the short tag's value must contain a single-byte string"))
    ELSE
      LET short == IF f.short # <<>> THEN DecodeRune(f.short) ELSE 0
          name  == ToKebab(f.name)
          opt   == [long |-> name, short |-> short, target |-> "field",
                    mandatory |-> (f.required = "true")]
      IN registerFields_NoSkip(Tail(fields),
           [pw EXCEPT !.set = Append(@, opt),
                      !.docs = (name :> f.doc) @@ @,
                      !.required = IF f.required = "true"
                                   THEN @ \cup {name} ELSE @])

\* Steps 2-8 of newParserWrapper: the loop over the fields of the struct,
\* from the first of `fields` on, with the parser built so far.
RECURSIVE registerFields(_, _)
registerFields(fields, pw) ==
  IF fields = <<>> THEN pw
  ELSE
    LET f == Head(fields) IN
    IF f.doc = "-" THEN registerFields(Tail(fields), pw)
    ELSE IF f.doc = ""
      THEN NilParser(NewError("there is a field without documentation"))
    ELSE IF f.short # <<>> /\ Len(f.short) # 1
      THEN NilParser(NewError(
             "the short tag's value must contain a single-byte string"))
    ELSE
      LET short == IF f.short # <<>> THEN DecodeRune(f.short) ELSE 0
          name  == ToKebab(f.name)
          opt   == [long |-> name, short |-> short, target |-> "field",
                    mandatory |-> (f.required = "true")]
      IN registerFields(Tail(fields),
           [pw EXCEPT !.set = Append(@, opt),
                      !.docs = (name :> f.doc) @@ @,
                      !.required = IF f.required = "true"
                                   THEN @ \cup {name} ELSE @])

\* newParserWrapper(flags, configs...): every option record of the model is
\* a pointer to a struct with exported, addressable fields.
newParserWrapper(flags, configs) ==
  LET pw == registerFields(StructFields(flags.type), NilParser(NoErr)) IN
  IF pw.err # NoErr THEN pw ELSE applyConfigs(configs, pw)

numOptions(pw) == Cardinality(DOMAIN pw.docs)

\* parserWrapper.maybeAddHelpFlags: the parser with -h/--help registered on
\* the help cell, unless an option named h or help is there already.
helpFlagsFound(pw) ==
  \E i \in 1..Len(pw.set) : pw.set[i].short = 104 \/ pw.set[i].long = "help"

\* A maybeAddHelpFlags that registers -h/--help whatever is there
maybeAddHelpFlags_Always(pw) ==
  [pw EXCEPT
     !.set = Append(@, [long |-> "help", short |-> 104,
                        target |-> "help", mandatory |-> FALSE]),
     !.docs = ("help" :> "Prints this help message") @@ @]

maybeAddHelpFlags(pw) ==
  IF helpFlagsFound(pw) THEN pw
  ELSE [pw EXCEPT
          !.set = Append(@, [long |-> "help", short |-> 104,
                             target |-> "help", mandatory |-> FALSE]),
          !.docs = ("help" :> "Prints this help message") @@ @]

\* How the flat parser reads one argument: the number of leading dashes
\* that make it an option, and the long or short name it carries.
OptionSyntax(arg) ==
  CASE arg = "--help"    -> [dashes |-> 2, long |-> "help", short |-> 0]
    [] arg = "-h"        -> [dashes |-> 1, long |-> "", short |-> 104]
    [] arg = "--input"   -> [dashes |-> 2, long |-> "input", short |-> 0]
    [] arg = "--verbose" -> [dashes |-> 2, long |-> "verbose", short |-> 0]
    [] arg = "-v"        -> [dashes |-> 1, long |-> "", short |-> 118]
    [] arg = "--bogus"   -> [dashes |-> 2, long |-> "bogus", short |-> 0]
    [] arg = "--"        -> [dashes |-> 2, long |-> "", short |-> 0]
    [] OTHER             -> [dashes |-> 0, long |-> "", short |-> 0]

\* The scan of getopt.Set.Getopt over the arguments after the program name:
\* options are consumed up to the first argument that is not one (or past a
\* "--"); each option met has its target written at once, so `seen` is kept
\* also when a later argument fails.
RECURSIVE scanOptions(_, _, _)
scanOptions(set, args, seen) ==
  IF args = <<>> THEN [err |-> NoErr, args |-> <<>>, seen |-> seen]
  ELSE
    LET arg == Head(args)
        syn == OptionSyntax(arg)
        matching == {i \in 1..Len(set) :
                       \/ syn.dashes = 2 /\ set[i].long = syn.long
                       \/ syn.dashes = 1 /\ set[i].short = syn.short}
    IN
    IF syn.dashes = 0 THEN [err |-> NoErr, args |-> args, seen |-> seen]
    ELSE IF arg = "--" THEN [err |-> NoErr, args |-> Tail(args), seen |-> seen]
    ELSE IF matching = {}
      THEN [err |-> NewError("unknown option"), args |-> args, seen |-> seen]
    ELSE scanOptions(set, Tail(args),
                     seen \cup {set[i].long : i \in matching})

\* p.set.Getopt(args, nil): args[0] is the program name; a mandatory option
\* that was not met fails the parse.
setGetopt(set, args) ==
  IF args = <<>> THEN [err |-> NoErr, args |-> <<>>, seen |-> {}]
  ELSE
    LET r == scanOptions(set, Tail(args), {}) IN
    IF r.err # NoErr THEN r
    ELSE IF \E i \in 1..Len(set) : set[i].mandatory /\ set[i].long \notin r.seen
      THEN [r EXCEPT !.err = NewError("option is mandatory")]
    ELSE r

\* A Getopt that checks the positional arguments whatever the parse did
parserGetopt_CheckFirst(pw, args) ==
  LET r == setGetopt(pw.set, args)
      e == check(pw.pac, Len(r.args))
  IN IF e # NoErr THEN [r EXCEPT !.err = e] ELSE r

\* parserWrapper.Getopt: [err, args, seen]; args is what Args() returns
\* afterwards and NArgs() its length.
parserGetopt(pw, args) ==
  LET r == setGetopt(pw.set, args) IN
  IF r.err # NoErr THEN r
  ELSE [r EXCEPT !.err = check(pw.pac, Len(r.args))]

\* Whether the parse wrote true into the help cell bound by
\* maybeAddHelpFlags.
helpCellWritten(pw, r) ==
  \E i \in 1..Len(pw.set) : pw.set[i].target = "help" /\ pw.set[i].long \in r.seen

----------------------------------------------------------------------------
(* CommandParser: construction *)

\* The position at which sort.SliceStable leaves an element that followed
\* the already sorted ones: before the first whose name is greater.
insertSorted(sorted, x) ==
  LET after == {i \in 1..Len(sorted) : StrLess(x.name, sorted[i].name)}
      k == IF after = {} THEN Len(sorted) + 1
           ELSE CHOOSE i \in after : \A j \in after : i <= j
  IN SubSeq(sorted, 1, k - 1) \o <<x>> \o SubSeq(sorted, k, Len(sorted))

\* A constructor that keeps the subcommands in the order passed
sortSubcommands_AsPassed(subcommands) == subcommands

\* sort.SliceStable(subcommands, by name)
RECURSIVE sortSubcommands(_)
sortSubcommands(subcommands) ==
  IF subcommands = <<>> THEN <<>>
  ELSE insertSorted(
         sortSubcommands(SubSeq(subcommands, 1, Len(subcommands) - 1)),
         subcommands[Len(subcommands)])

\* Subcommand(name, description, options, subcommands...); the help field,
\* false at construction, is the variable help.
Subcommand(name, description, options, subcommands) ==
  [name |-> name, description |-> description, options |-> options,
   pac |-> newPositionalArgumentsChecker,
   subcommands |-> sortSubcommands(subcommands)]

RECURSIVE leafConfig(_, _)
leafConfig(p, config) ==
  IF config = <<>> THEN p
  ELSE
    LET entry == Head(config) IN
    leafConfig(
      IF entry.config = "minMaxPositionalArguments"
        THEN [p EXCEPT !.pac = [minArgs |-> entry.minArgs,
                                maxArgs |-> entry.maxArgs]]
        ELSE p,   \* log.Printf("getoptx: ignoring unsupported piece of config")
      Tail(config))

\* LeafSubcommand(name, description, options, config...)
LeafSubcommand(name, description, options, config) ==
  leafConfig(Subcommand(name, description, options, <<>>), config)

containsHelp(subcommands) ==
  \E i \in 1..Len(subcommands) : subcommands[i].name = "help"

\* A Command that appends the help child whatever it is passed
Command_AlwaysHelp(description, options, subcommands) ==
  Subcommand(ProgName, description, options,
    Append(subcommands,
      LeafSubcommand("help", "Prints generic or command-specific help",
                     SubcommandHelpRecord, <<>>)))

\* Command(description, options, subcommands...)
Command(description, options, subcommands) ==
  Subcommand(ProgName, description, options,
    IF ~containsHelp(subcommands)
      THEN Append(subcommands,
             LeafSubcommand("help", "Prints generic or command-specific help",
                            SubcommandHelpRecord, <<>>))
      ELSE subcommands)

\* The node a pointer leads to from node t.
RECURSIVE NodeAt(_, _)
NodeAt(t, ptr) ==
  IF ptr = <<>> THEN t ELSE NodeAt(t.subcommands[Head(ptr)], Tail(ptr))

----------------------------------------------------------------------------
(* CommandParser: the rendering of the help.  What is written is a         *)
(* sequence of lines [kind, names, text, flags]; word wrapping and the     *)
(* trailing period are left out.                                           *)

Line(kind, names, text, flags) ==
  [kind |-> kind, names |-> names, text |-> text, flags |-> flags]

hasOptions(p) ==
  LET parser == newParserWrapper(p.options, <<>>) IN
  parser.err = NoErr /\ numOptions(parser) > 0

positionalArgumentsPlaceholder(p) ==
  IF Len(p.subcommands) > 0 THEN " <subcommand> [...]"
  ELSE IF p.pac.maxArgs > 1 THEN " <argument> [<argument> ...]"
  ELSE IF p.pac.maxArgs > 0 THEN " <argument>"
  ELSE ""

\* fullcmd: strings.Join of the names of the chain, kept as their sequence
fullcmd(t, chain) == [i \in 1..Len(chain) |-> NodeAt(t, chain[i]).name]

printBriefUsage(t, p, chain) ==
  << Line("usage", fullcmd(t, chain),
          positionalArgumentsPlaceholder(p),
          [i \in 1..Len(chain) |-> hasOptions(NodeAt(t, chain[i]))]) >>

printSubcommandDescription(p) ==
  << Line("description", <<>>, p.description, <<>>) >>

\* parserWrapper.printOptions
parserPrintOptions(pw) ==
  << Line("options", <<>>, "Options:", <<>>) >> \o
  [i \in 1..Len(pw.set) |->
     Line("option", << pw.set[i].long >>, pw.docs[pw.set[i].long],
          << pw.set[i].short # 0, pw.set[i].long \in pw.required >>)]

\* CommandParser.printOptions, from the i-th entry of the chain on
RECURSIVE printOptionsFrom(_, _, _)
printOptionsFrom(t, chain, i) ==
  IF i > Len(chain) THEN <<>>
  ELSE
    LET entry == NodeAt(t, chain[i])
        parser == newParserWrapper(entry.options, <<>>)
    IN
    (IF parser.err # NoErr \/ numOptions(parser) <= 0 THEN <<>>
     ELSE << Line("options for", << entry.name >>, "", <<>>) >>
          \o parserPrintOptions(parser))
    \o printOptionsFrom(t, chain, i + 1)

printOptions(t, chain) == printOptionsFrom(t, chain, 1)

\* A printSingleSubcommand that shows the last name only
printSingleSubcommand_LastName(doc, names) ==
  << [kind |-> "subcommand", names |-> << names[Len(names)] >>, text |-> doc,
      flags |-> <<>>] >>

printSingleSubcommand(doc, names) == << Line("subcommand", names, doc, <<>>) >>

\* CommandParser.printSubcommands(w, names): at i = 0 the call itself, at
\* i >= 1 its loop from the i-th subcommand on.
RECURSIVE printSubcommandsLoop(_, _, _)
printSubcommandsLoop(p, names, i) ==
  IF i = 0
    THEN IF Len(p.subcommands) > 0
           THEN (IF Len(names) <= 0
                   THEN << Line("subcommands", <<>>, "Subcommands:", <<>>) >>
                   ELSE <<>>)
                \o printSubcommandsLoop(p, names, 1)
           ELSE <<>>
  ELSE IF i > Len(p.subcommands) THEN <<>>
  ELSE
    LET sc == p.subcommands[i]
        newnames == Append(names, sc.name)
    IN
    (IF Len(sc.subcommands) > 0 THEN printSubcommandsLoop(sc, newnames, 0)
     ELSE printSingleSubcommand(sc.description, newnames))
    \o printSubcommandsLoop(p, names, i + 1)

printSubcommands(p, names) == printSubcommandsLoop(p, names, 0)

\* CommandParser.printHelp(parser, w, chain) on the node p
printHelp(t, p, chain) ==
  printBriefUsage(t, p, chain) \o printSubcommandDescription(p)
    \o printOptions(t, chain) \o printSubcommands(p, <<>>)

----------------------------------------------------------------------------
(* CommandParser: resolution *)

NilCommand == [nil |-> TRUE, options |-> Options("nil", "nil"), args |-> <<>>]
SelectedCommand(options, args) ==
  [nil |-> FALSE, options |-> options, args |-> args]

\* What is written to os.Stderr: [kind, cmd, text, fullcmd]; every kind but
\* "internal error" ends with the pointer "See '<fullcmd> --help'."
ErrLine(kind, cmd, text, full) ==
  [kind |-> kind, cmd |-> cmd, text |-> text, fullcmd |-> full]

\* CommandParser.newParserWrapper(chain) on the node p: the parser, with
\* -h/--help bound to p.help when the record declares neither.
cmdNewParserWrapper(t, p, chain) ==
  LET parser == newParserWrapper(p.options,
                  << SetPositionalArgumentsPlaceholder(
                       positionalArgumentsPlaceholder(p)),
                     SetProgramName(fullcmd(t, chain)) >>)
  IN IF parser.err # NoErr THEN parser ELSE maybeAddHelpFlags(parser)

\* A newSelectedCommand that keeps the name of the subcommand in the
\* arguments
newSelectedCommand_KeepingName(p, args) ==
  SelectedCommand(p.options, << p.name >> \o args)

\* CommandParser.newSelectedCommand
newSelectedCommand(p, args) == SelectedCommand(p.options, args)

\* A loop that falls back on the first subcommand when none matches
selectSubcommand_Fallback(p, subcmd) ==
  LET found == {i \in 1..Len(p.subcommands) : p.subcommands[i].name = subcmd}
  IN IF found = {} THEN 1 ELSE CHOOSE i \in found : \A j \in found : i <= j

\* The index of the subcommand that the loop of step 6 dispatches to, 0 if
\* the loop ends without a match.
selectSubcommand(p, subcmd) ==
  LET found == {i \in 1..Len(p.subcommands) : p.subcommands[i].name = subcmd}
  IN IF found = {} THEN 0 ELSE CHOOSE i \in found : \A j \in found : i <= j

\* The two ways a call of getoptall ends: it returns, or it returns what the
\* call of getoptall on a subcommand returns.  help is the set of nodes
\* whose help field is true afterwards.
Return(sc, err, out, errout, h) ==
  [kind |-> "return", sc |-> sc, err |-> err, stdout |-> out,
   stderr |-> errout, help |-> h, cur |-> <<>>, chain |-> <<>>, args |-> <<>>]
Dispatch(cur, chain, args, h) ==
  [kind |-> "call", sc |-> NilCommand, err |-> NoErr, stdout |-> <<>>,
   stderr |-> <<>>, help |-> h, cur |-> cur, chain |-> chain, args |-> args]

\* Step 3 of getoptall and the toplevel case of step 5.
printedHelp(t, p, chain, h) ==
  Return(SelectedCommand(HasPrintedHelpRecord, <<>>), NoErr,
         printHelp(t, p, chain), <<>>, h)

\* Step 4 of getoptall: the node is a leaf.
leafCommand(p, cmd, parsed, h) ==
  LET err == check(p.pac, Len(parsed.args)) IN
  IF err # NoErr THEN Return(NilCommand, WrapForCommand(err), <<>>, <<>>, h)
  ELSE Return(newSelectedCommand(p, parsed.args), NoErr, <<>>, <<>>, h)

\* A step 5 that asks for a subcommand name at the toplevel too
missingSubcommand_AlwaysError(t, p, chain, cmd, h) ==
  Return(NilCommand, NewError("expected subcommand name"), <<>>,
         << ErrLine("expected subcommand name", cmd, "",
                    fullcmd(t, chain)) >>, h)

\* A step 5 that prints the help whatever the length of the chain
missingSubcommand_AlwaysHelp(t, p, chain, cmd, h) == printedHelp(t, p, chain, h)

\* Step 5 of getoptall: no positional argument is left to name a subcommand.
missingSubcommand(t, p, chain, cmd, h) ==
  IF Len(chain) < 2 THEN printedHelp(t, p, chain, h)
  ELSE Return(NilCommand, NewError("expected subcommand name"), <<>>,
              << ErrLine("expected subcommand name", cmd, "",
                         fullcmd(t, chain)) >>, h)

\* A dispatch that starts the chain of the subcommand afresh
dispatchSubcommand_FreshChain(t, p, cur, chain, cmd, parsed, h) ==
  LET subcmd == parsed.args[1]
      i == selectSubcommand(p, subcmd)
  IN IF i # 0
       THEN Dispatch(Append(cur, i), << Append(cur, i) >>, parsed.args, h)
       ELSE Return(NilCommand, ErrNoSuchSubcommand, <<>>,
                   << ErrLine("no such subcommand", cmd, subcmd,
                              fullcmd(t, chain)) >>, h)

\* Steps 6 and 7 of getoptall.
dispatchSubcommand(t, p, cur, chain, cmd, parsed, h) ==
  LET subcmd == parsed.args[1]
      i == selectSubcommand(p, subcmd)
  IN IF i # 0
       THEN Dispatch(Append(cur, i), Append(chain, Append(cur, i)),
                     parsed.args, h)
       ELSE Return(NilCommand, ErrNoSuchSubcommand, <<>>,
                   << ErrLine("no such subcommand", cmd, subcmd,
                              fullcmd(t, chain)) >>, h)

\* A getoptall that checks the leaf before the help field
getoptallParsed_LeafFirst(t, h, cur, chain, p, parser, parsed) ==
  LET cmd == NodeAt(t, chain[1]).name
      h2 == IF helpCellWritten(parser, parsed) THEN h \cup {cur} ELSE h
  IN
  IF parsed.err # NoErr
    THEN Return(NilCommand, parsed.err, <<>>,
                << ErrLine("error", cmd, parsed.err.kind,
                           fullcmd(t, chain)) >>, h2)
  ELSE IF Len(p.subcommands) <= 0 THEN leafCommand(p, cmd, parsed, h2)
  ELSE IF cur \in h2 THEN printedHelp(t, p, chain, h2)
  ELSE IF Len(parsed.args) <= 0 THEN missingSubcommand(t, p, chain, cmd, h2)
  ELSE dispatchSubcommand(t, p, cur, chain, cmd, parsed, h2)

\* getoptall from the parse of step 2 on: p is the receiver (the node at
\* cur), parser what CommandParser.newParserWrapper returned and parsed what
\* parser.Getopt(args) did; h is the set of nodes whose help field was true
\* when getoptall was called.
getoptallParsed(t, h, cur, chain, p, parser, parsed) ==
  LET cmd == NodeAt(t, chain[1]).name
      h2 == IF helpCellWritten(parser, parsed) THEN h \cup {cur} ELSE h
  IN
  IF parsed.err # NoErr
    THEN Return(NilCommand, parsed.err, <<>>,
                << ErrLine("error", cmd, parsed.err.kind,
                           fullcmd(t, chain)) >>, h2)
  ELSE IF cur \in h2 THEN printedHelp(t, p, chain, h2)
  ELSE IF Len(p.subcommands) <= 0 THEN leafCommand(p, cmd, parsed, h2)
  ELSE IF Len(parsed.args) <= 0 THEN missingSubcommand(t, p, chain, cmd, h2)
  ELSE dispatchSubcommand(t, p, cur, chain, cmd, parsed, h2)

\* getoptall when CommandParser.newParserWrapper fails (step 1)
getoptallInternalError(t, h, chain, parser) ==
  Return(NilCommand, parser.err, <<>>,
         << ErrLine("internal error", NodeAt(t, chain[1]).name,
                    parser.err.kind, <<>>) >>, h)

\* getoptall called with an empty chain (step 0)
getoptallPanic(h) ==
  Return(NilCommand, NewError("panic: called with zero length chain"),
         <<>>, <<>>, h)

\* p.getoptall(chain, args) with p the node at cur of the tree t and h the
\* nodes whose help field is true.
getoptall(t, h, cur, chain, args) ==
  IF Len(chain) < 1 THEN getoptallPanic(h)
  ELSE
    LET p == NodeAt(t, cur)
        parser == cmdNewParserWrapper(t, p, chain)
    IN
    IF parser.err # NoErr THEN getoptallInternalError(t, h, chain, parser)
    ELSE getoptallParsed(t, h, cur, chain, p, parser,
                         parserGetopt(parser, args))

\* A test of the marker that never answers yes
isSubcommandHelp_Never(sc) == FALSE

\* sc.options.(*subcommandHelp)
isSubcommandHelp(sc) == sc.options.type = "subcommandHelp"

\* A rewrite that leaves --help out
rewriteHelp_NoFlag(args, sc) == <<args[1]>> \o sc.args

\* A rewrite that keeps the vector as it is
rewriteHelp_Same(args, sc) == args

\* The vector that Getopt re-invokes itself with: args0 a b c --help
rewriteHelp(args, sc) == Append(<<args[1]>> \o sc.args, "--help")

----------------------------------------------------------------------------
(* The trees and the argument vectors that are explored *)

StructTypes ==
  {"NoOptions", "VerboseOptions", "RequiredOptions", "OwnHelpOptions",
   "UndocumentedOptions", "HostOptions"}

ConfigLists ==
  { <<>>, << NoPositionalArguments >>, << AtLeastOnePositionalArgument >>,
    << JustOnePositionalArgument >>,
    << SetPositionalArgumentsPlaceholder("file") >> }

Shapes ==
  {"command", "own help", "only help", "subcommand", "duplicate", "leaf"}

\* The subcommand `run` of the example program, with two leaves passed in
\* descending order of name.
RunSubcommand(type) ==
  Subcommand("run", "runs nettests", Options(type, "run"),
    << LeafSubcommand("list", "lists the nettests",
                      Options("NoOptions", "run list"),
                      << NoPositionalArguments >>),
       LeafSubcommand("help", "explains the nettests",
                      Options("VerboseOptions", "run help"), <<>>) >>)

ListSubcommand(type, config) ==
  LeafSubcommand("list", "lists available measurements",
                 Options(type, "list"), config)

\* The subcommands that the caller passes to the constructor of the root for
\* a profile [root, run, leaf, config, shape]: the struct types of the
\* records of the root, of `run` and of the leaf `list`, the config of that
\* leaf, and the constructor calls.
RootSubcommands(pr) ==
  LET run  == RunSubcommand(pr.run)
      list == ListSubcommand(pr.leaf, pr.config)
  IN
  CASE pr.shape = "command" -> << run, list >>
    [] pr.shape = "own help" ->
         << run, list,
            LeafSubcommand("help", "custom help",
                           Options("VerboseOptions", "own help"), <<>>) >>
    [] pr.shape = "only help" -> <<>>
    [] pr.shape = "subcommand" -> << run, list >>
    [] pr.shape = "duplicate" ->
         << run, list,
            Subcommand("list", "lists more", Options("NoOptions", "list 2"),
              << LeafSubcommand("run", "runs one",
                   Options("NoOptions", "list 2 run"), <<>>) >>) >>
    [] pr.shape = "leaf" -> <<>>

\* The constructor that the caller builds the root with
RootConstructor(pr) ==
  CASE pr.shape = "subcommand" -> "Subcommand"
    [] pr.shape = "leaf" -> "LeafSubcommand"
    [] OTHER -> "Command"

\* The tree that the caller builds for a profile
BuildTree(pr) ==
  LET root == Options(pr.root, "root")
      desc == "network measurement tool"
  IN
  CASE RootConstructor(pr) = "Command" ->
         Command(desc, root, RootSubcommands(pr))
    [] RootConstructor(pr) = "Subcommand" ->
         Subcommand(ProgName, desc, root, RootSubcommands(pr))
    [] RootConstructor(pr) = "LeafSubcommand" ->
         LeafSubcommand(ProgName, desc, root, pr.config)

BaseProfile ==
  [root |-> "VerboseOptions", run |-> "NoOptions", leaf |-> "NoOptions",
   config |-> << JustOnePositionalArgument >>, shape |-> "command"]

\* The profiles that differ from the base one in at most one component.
Profiles ==
  {pr \in [root : StructTypes, run : StructTypes, leaf : StructTypes,
           config : ConfigLists, shape : Shapes] :
     Cardinality({f \in {"root", "run", "leaf", "config", "shape"} :
                    pr[f] # BaseProfile[f]}) <= 1}

\* The arguments that follow the program name
Words == {"help", "list", "run", "x", "--help", "--input", "--bogus"}

RECURSIVE SeqsUpTo(_, _)
SeqsUpTo(S, n) ==
  IF n = 0 THEN { <<>> }
  ELSE LET shorter == SeqsUpTo(S, n - 1) IN
       shorter \cup {Append(s, x) : s \in {q \in shorter : Len(q) = n - 1},
                                    x \in S}

\* The vectors the caller passes to Getopt: the empty one, and os.Args
Argvs ==
  { <<>> } \cup { <<ProgName>> \o s : s \in SeqsUpTo(Words, MaxArgv - 1) }

----------------------------------------------------------------------------
(* The state machine *)

VARIABLES
  flat,      \* a Parser made with NewParser and used on its own
  passed,    \* the constructor of the root and the subcommands passed to it
  tree,      \* the root CommandParser, as built
  help,      \* the pointers of the nodes whose field help is true
  pc,        \* "idle", or where the call of Getopt in progress is
  calls,     \* how many calls of Getopt the caller has made
  callArgs,  \* the vector the caller passed to the call in progress
  help0,     \* help when the call in progress began
  rewrites,  \* how many times the call re-invoked Getopt for `help`
  argv,      \* args of the innermost Getopt
  cur,       \* the receiver p of the innermost getoptall
  chain,     \* its chain
  args,      \* its args
  sc,        \* the *SelectedCommand returned
  err,       \* the error returned
  stdout,    \* what the call wrote to os.Stdout
  stderr,    \* what the call wrote to os.Stderr
  trace      \* the calls of getoptall made so far within the call of Getopt

commandVars == << passed, tree, help, pc, calls, callArgs, help0, rewrites, argv, cur, chain, args,
           sc, err, stdout, stderr, trace >>

vars == << flat, commandVars >>

\* The struct types, the configs and the vectors that a Parser is made with
\* and used on.
FlatStructTypes ==
  {"NoOptions", "VerboseOptions", "RequiredOptions", "OwnHelpOptions",
   "UndocumentedOptions", "EmbeddingOptions", "HostOptions", "SkippedOptions",
   "UndocumentedLastOptions", "TwoByteShortOptions", "AccentedShortOptions",
   "HighByteShortOptions", "ShortThenUndocumentedOptions"}

FlatWords == {"x", "-v", "-h", "--verbose", "--input", "--bogus", "--"}

FlatArgvs == { <<ProgName>> \o a : a \in SeqsUpTo(FlatWords, MaxArgv - 1) }

\* No Parser was made yet.
NoParser ==
  [pc |-> "new", flags |-> Options("nil", "nil"), configs |-> <<>>,
   parser |-> NilParser(NoErr), args |-> <<>>,
   scan |-> [err |-> NoErr, args |-> <<>>, seen |-> {}],
   result |-> [err |-> NoErr, args |-> <<>>, seen |-> {}]]

Init ==
  /\ flat = NoParser
  /\ \E pr \in Profiles :
       /\ passed = [constructor |-> RootConstructor(pr),
                    subcommands |-> RootSubcommands(pr)]
       /\ tree = BuildTree(pr)
  /\ help = {}
  /\ pc = "idle"
  /\ calls = 0
  /\ callArgs = <<>>
  /\ help0 = {}
  /\ rewrites = 0
  /\ argv = <<>>
  /\ cur = <<>>
  /\ chain = <<>>
  /\ args = <<>>
  /\ sc = NilCommand
  /\ err = NoErr
  /\ stdout = <<>>
  /\ stderr = <<>>
  /\ trace = <<>>

\* The caller calls root.Getopt(a).
Call ==
  /\ pc = "idle"
  /\ calls < MaxCalls
  /\ calls' = calls + 1
  /\ \E a \in Argvs :
       /\ callArgs' = a
       /\ argv' = a
  /\ pc' = "Getopt"
  /\ help0' = help
  /\ rewrites' = 0
  /\ cur' = <<>>
  /\ chain' = <<>>
  /\ args' = <<>>
  /\ sc' = NilCommand
  /\ err' = NoErr
  /\ stdout' = <<>>
  /\ stderr' = <<>>
  /\ trace' = <<>>
  /\ UNCHANGED << flat, passed, tree, help >>

\* Getopt, up to its call of getoptall on the chain [p].
GetoptEnter ==
  /\ pc = "Getopt"
  /\ IF Len(argv) < 1
       THEN /\ pc' = "done"
            /\ sc' = NilCommand
            /\ err' = NewError("passed a zero length argv")
            /\ UNCHANGED << cur, chain, args >>
       ELSE /\ pc' = "getoptall"
            /\ cur' = <<>>
            /\ chain' = << <<>> >>
            /\ args' = argv
            /\ UNCHANGED << sc, err >>
  /\ UNCHANGED << flat, passed, tree, help, calls, callArgs, help0, rewrites, argv, stdout,
                  stderr, trace >>

\* The record of one call of getoptall kept in trace: its receiver and
\* arguments, whether the parser was built, the error and the positional
\* arguments of the parse, and whether the receiver's help field was true
\* after the parse.
Level(p, c, a, parser, parsed, h) ==
  [cur |-> p, chain |-> c, args |-> a,
   built |-> (Len(c) >= 1 /\ parser.err = NoErr),
   parseErr |-> parsed.err, residual |-> parsed.args, help |-> (p \in h)]

\* One call of getoptall, up to its return or to its call of getoptall on
\* the selected subcommand: r is what getoptall(tree, help, cur, chain, args)
\* evaluates to.
GetoptallStep ==
  /\ pc = "getoptall"
  /\ \E p \in {NodeAt(tree, cur)} :
     \E parser \in {IF Len(chain) < 1 THEN NilParser(NoErr)
                    ELSE cmdNewParserWrapper(tree, p, chain)} :
     \E parsed \in {parserGetopt(parser, args)} :
     \E r \in {IF Len(chain) < 1 THEN getoptallPanic(help)
               ELSE IF parser.err # NoErr
                 THEN getoptallInternalError(tree, help, chain, parser)
               ELSE getoptallParsed(tree, help, cur, chain, p, parser,
                                    parsed)} :
       /\ help' = r.help
       /\ trace' = Append(trace, Level(cur, chain, args, parser, parsed,
                                       r.help))
       /\ stdout' = stdout \o r.stdout
       /\ stderr' = stderr \o r.stderr
       /\ IF r.kind = "call"
            THEN /\ pc' = "getoptall"
                 /\ cur' = r.cur
                 /\ chain' = r.chain
                 /\ args' = r.args
                 /\ UNCHANGED << sc, err >>
            ELSE /\ pc' = "returned"
                 /\ sc' = r.sc
                 /\ err' = r.err
                 /\ UNCHANGED << cur, chain, args >>
  /\ UNCHANGED << flat, passed, tree, calls, callArgs, help0, rewrites, argv >>

\* Getopt, from the return of getoptall on: the error, the help rewrite, or
\* the selected command.
GetoptReturn ==
  /\ pc = "returned"
  /\ IF err # NoErr
       THEN /\ pc' = "done"
            /\ sc' = NilCommand
            /\ UNCHANGED << argv, rewrites >>
       ELSE IF isSubcommandHelp(sc)
         THEN /\ pc' = "Getopt"
              /\ argv' = rewriteHelp(argv, sc)
              /\ rewrites' = rewrites + 1
              /\ sc' = NilCommand
         ELSE /\ pc' = "done"
              /\ UNCHANGED << argv, rewrites, sc >>
  /\ UNCHANGED << flat, passed, tree, help, calls, callArgs, help0, cur, chain, args, err,
                  stdout, stderr, trace >>

\* The caller has the outcome of the call: what remains of the call is the
\* help fields of the nodes.
Done ==
  /\ pc = "done"
  /\ pc' = "idle"
  /\ callArgs' = <<>>
  /\ help0' = {}
  /\ rewrites' = 0
  /\ argv' = <<>>
  /\ cur' = <<>>
  /\ chain' = <<>>
  /\ args' = <<>>
  /\ sc' = NilCommand
  /\ err' = NoErr
  /\ stdout' = <<>>
  /\ stderr' = <<>>
  /\ trace' = <<>>
  /\ UNCHANGED << flat, passed, tree, help, calls >>

Next == Call \/ GetoptEnter \/ GetoptallStep \/ GetoptReturn \/ Done

Spec == Init /\ [][Next]_vars

----------------------------------------------------------------------------
(* The flat parser on its own: NewParser, then Parser.Getopt *)

FlatInit == Init /\ tree = BuildTree(BaseProfile)

\* parser, err := NewParser(flags, configs...)
FlatNewParser ==
  /\ flat.pc = "new"
  /\ \E type \in FlatStructTypes, configs \in ConfigLists :
     \E parser \in {newParserWrapper(Options(type, "flags"), configs)} :
       flat' = [flat EXCEPT
                  !.pc = IF parser.err = NoErr THEN "parser" ELSE "failed",
                  !.flags = Options(type, "flags"),
                  !.configs = configs,
                  !.parser = parser]
  /\ UNCHANGED commandVars

\* err := parser.Getopt(args); scan is what p.set.Getopt(args, nil) did.
FlatGetopt ==
  /\ flat.pc = "parser"
  /\ \E a \in FlatArgvs :
       flat' = [flat EXCEPT !.pc = "parsed",
                            !.args = a,
                            !.scan = setGetopt(flat.parser.set, a),
                            !.result = parserGetopt(flat.parser, a)]
  /\ UNCHANGED commandVars

FlatNext == FlatNewParser \/ FlatGetopt

FlatSpec == FlatInit /\ [][FlatNext]_vars

----------------------------------------------------------------------------
(* Getopt as a function: what a call returns and writes, and the help      *)
(* fields it leaves, from the tree, the help fields and the vector.        *)

Outcome(r_sc, r_err, out, errout, h) ==
  [sc |-> r_sc, err |-> r_err, stdout |-> out, stderr |-> errout, help |-> h]

\* p.getoptall(chain, args) down to the return of the innermost call, after
\* out and errout were written.
RECURSIVE runGetoptall(_, _, _, _, _, _, _)
runGetoptall(t, h, p, c, a, out, errout) ==
  LET r == getoptall(t, h, p, c, a) IN
  IF r.kind = "call"
    THEN runGetoptall(t, r.help, r.cur, r.chain, r.args, out \o r.stdout,
                      errout \o r.stderr)
    ELSE Outcome(r.sc, r.err, out \o r.stdout, errout \o r.stderr, r.help)

\* root.Getopt(args), after out and errout were written.
RECURSIVE runGetopt(_, _, _, _, _)
runGetopt(t, h, a, out, errout) ==
  IF Len(a) < 1
    THEN Outcome(NilCommand, NewError("passed a zero length argv"), out,
                 errout, h)
  ELSE
    LET r == runGetoptall(t, h, <<>>, << <<>> >>, a, out, errout) IN
    IF r.err # NoErr THEN [r EXCEPT !.sc = NilCommand]
    ELSE IF isSubcommandHelp(r.sc)
      THEN runGetopt(t, r.help, rewriteHelp(a, r.sc), r.stdout, r.stderr)
    ELSE r

Getopt(t, h, a) == runGetopt(t, h, a, <<>>, <<>>)

----------------------------------------------------------------------------
(* Vocabulary of the properties *)

\* The pointers of the nodes of the tree t
RECURSIVE Pointers(_)
Pointers(t) ==
  { <<>> } \cup
  UNION { { <<i>> \o q : q \in Pointers(t.subcommands[i]) } :
          i \in 1..Len(t.subcommands) }

\* The names of the nodes met from the root (excluded) down to ptr
NamePath(t, ptr) ==
  [i \in 1..Len(ptr) |-> NodeAt(t, SubSeq(ptr, 1, i)).name]

IsLeaf(t, ptr) == Len(NodeAt(t, ptr).subcommands) = 0

\* The node at ptr is the auto-injected help child.
IsInternalHelp(t, ptr) == NodeAt(t, ptr).options.type = "subcommandHelp"

\* The arguments that are not option tokens
PlainWords == {w \in Words : OptionSyntax(w).dashes = 0}
IsPlain(a) == \A i \in 1..Len(a) : a[i] \in PlainWords

\* The record builds a parser, and declares no required option.
Builds(options) == newParserWrapper(options, <<>>).err = NoErr
NoneRequired(options) == newParserWrapper(options, <<>>).required = {}

\* Each node on the way to ptr is the first child of its parent to bear its
\* name.
FirstOfItsName(t, ptr) ==
  \A i \in 1..Len(ptr) :
    LET parent == NodeAt(t, SubSeq(ptr, 1, i - 1)) IN
    \A j \in 1..(ptr[i] - 1) :
      parent.subcommands[j].name # parent.subcommands[ptr[i]].name

\* The call in progress is over, and it was the first one on the tree.
FirstCallDone == pc = "done" /\ calls = 1

\* callArgs is [prog, n1, ..., nk, r1, ..., rm] with n1..nk the names of the
\* path to the leaf at ptr, r1..rm plain words and m within the leaf's policy.
LeafVector(ptr) ==
  /\ IsLeaf(tree, ptr)
  /\ Len(callArgs) >= 1 + Len(ptr)
  /\ SubSeq(callArgs, 2, 1 + Len(ptr)) = NamePath(tree, ptr)
  /\ IsPlain(SubSeq(callArgs, 2 + Len(ptr), Len(callArgs)))
  /\ check(NodeAt(tree, ptr).pac, Len(callArgs) - 1 - Len(ptr)) = NoErr

LeafSelected(ptr) ==
  /\ err = NoErr
  /\ sc = SelectedCommand(NodeAt(tree, ptr).options,
                          SubSeq(callArgs, 2 + Len(ptr), Len(callArgs)))

----------------------------------------------------------------------------
(* C1 *)

\* C1, as stated: on a freshly built tree, for the vector [prog, n1..nk,
\* r1..rm] with n1..nk the names of a path from the root to a childless
\* node L, no -h/--help and m within L's policy, Getopt returns a nil error
\* and the command [L's record, r1..rm].
C1_AsStated ==
  FirstCallDone =>
    \A ptr \in Pointers(tree) : LeafVector(ptr) => LeafSelected(ptr)

\* C1, amended: the same, provided that every node on the path is the first
\* child of its parent bearing its name, that L is not the auto-injected help
\* child, and that every option record on the path (the root's included)
\* builds and declares no required option.
C1_LeafSelection ==
  FirstCallDone =>
    \A ptr \in Pointers(tree) :
      ( /\ LeafVector(ptr)
        /\ FirstOfItsName(tree, ptr)
        /\ ~IsInternalHelp(tree, ptr)
        /\ \A i \in 0..Len(ptr) :
             LET o == NodeAt(tree, SubSeq(ptr, 1, i)).options IN
             Builds(o) /\ NoneRequired(o) )
      => LeafSelected(ptr)

\* A first call that selected a leaf below the root with a positional
\* argument.
C1_Witness ==
  /\ FirstCallDone
  /\ \E ptr \in Pointers(tree) :
       /\ Len(ptr) >= 1
       /\ LeafVector(ptr)
       /\ Len(callArgs) > 1 + Len(ptr)
       /\ FirstOfItsName(tree, ptr)
       /\ ~IsInternalHelp(tree, ptr)
       /\ LeafSelected(ptr)

----------------------------------------------------------------------------
(* C2 *)

\* The tree was built by Command, which added the internal help child.
HasInternalHelp ==
  \E i \in 1..Len(tree.subcommands) : IsInternalHelp(tree, <<i>>)

\* c is the names of a path from the root to a node.
IsChain(t, c) == \E ptr \in Pointers(t) : NamePath(t, ptr) = c

----------------------------------------------------------------------------
(* C3 *)

\* C3, as stated: every call of a sequence of calls on the same tree ends as
\* it would on a freshly built tree.
C3_NoStatePersists ==
  pc = "done" =>
    LET fresh == Getopt(tree, {}, callArgs) IN
    /\ sc = fresh.sc
    /\ err = fresh.err
    /\ stdout = fresh.stdout
    /\ stderr = fresh.stderr

----------------------------------------------------------------------------
(* C4 *)

BareInvocation ==
  /\ pc = "done"
  /\ callArgs = << ProgName >>
  /\ Len(tree.subcommands) >= 1

FullHelpOfRoot ==
  /\ err = NoErr
  /\ sc = SelectedCommand(HasPrintedHelpRecord, <<>>)
  /\ stdout = printHelp(tree, tree, << <<>> >>)

\* C4, as stated: Getopt([prog]) on a root with at least one child writes
\* the full help of the chain [root] to the standard output and returns a
\* nil error and the command [HasPrintedHelp, no arguments].
C4_AsStated == BareInvocation => FullHelpOfRoot

\* C4, amended: the same, provided that the root's option record builds and
\* declares no required option.
C4_BareInvocation ==
  (BareInvocation /\ Builds(tree.options) /\ NoneRequired(tree.options))
    => FullHelpOfRoot

\* A first bare invocation went through step 5 of getoptall and printed the
\* help with its listing of subcommands.
C4_Witness ==
  /\ BareInvocation
  /\ calls = 1
  /\ Len(trace) = 1
  /\ ~trace[1].help
  /\ FullHelpOfRoot
  /\ \E i \in 1..Len(stdout) : stdout[i].kind = "subcommand"

----------------------------------------------------------------------------
(* C5 *)

\* The i-th call of getoptall parsed its arguments, on a node with children,
\* and the first positional argument left is the name of none of them.
UnknownSubcommandAt(i) ==
  LET l == trace[i]
      node == NodeAt(tree, l.cur)
  IN /\ l.built
     /\ l.parseErr = NoErr
     /\ Len(node.subcommands) > 0
     /\ Len(l.residual) > 0
     /\ \A j \in 1..Len(node.subcommands) :
          node.subcommands[j].name # l.residual[1]

FailsWithNoSuchSubcommand ==
  pc \in {"returned", "done"} /\ err = ErrNoSuchSubcommand /\ sc = NilCommand

\* C5, as stated: when the node being resolved has children and the first
\* positional argument left by its parse names none of them, Getopt fails
\* with ErrNoSuchSubcommand and a nil command.
C5_AsStated ==
  \A i \in 1..Len(trace) : UnknownSubcommandAt(i) => FailsWithNoSuchSubcommand

\* C5, amended: the same, provided that the help field of the node is false
\* after the parse.
C5_UnknownSubcommand ==
  \A i \in 1..Len(trace) :
    (UnknownSubcommandAt(i) /\ ~trace[i].help) => FailsWithNoSuchSubcommand

\* A call failed on an unknown subcommand below the root.
C5_Witness ==
  /\ pc = "done"
  /\ Len(trace) = 2
  /\ UnknownSubcommandAt(2)
  /\ ~trace[2].help
  /\ FailsWithNoSuchSubcommand
  /\ Len(stderr) = 1

----------------------------------------------------------------------------
(* C6 *)

\* The i-th call of getoptall parsed its arguments, on a childless node
\* whose help field is false after the parse.
LeafReachedAt(i) ==
  LET l == trace[i] IN
  /\ l.built
  /\ l.parseErr = NoErr
  /\ ~l.help
  /\ Len(NodeAt(tree, l.cur).subcommands) = 0

\* What the policy of the node of the i-th call asks of Getopt
PolicyOutcomeAt(i) ==
  LET l == trace[i]
      pac == NodeAt(tree, l.cur).pac
      k == Len(l.residual)
  IN IF k < pac.minArgs
       THEN /\ ErrorsIs(err, ErrTooFewPositionalArguments)
            /\ err # NoErr
     ELSE IF k > pac.maxArgs
       THEN /\ ErrorsIs(err, ErrTooManyPositionalArguments)
            /\ err # NoErr
     ELSE /\ err = NoErr
          /\ ~sc.nil
          /\ sc.args = l.residual

\* C6, as stated: when the resolution reaches a childless node with policy
\* {minArgs, maxArgs}, its help flag has not fired and k positional
\* arguments are left, Getopt fails with an error wrapping
\* ErrTooFewPositionalArguments if k < minArgs, with one wrapping
\* ErrTooManyPositionalArguments if k > maxArgs, and otherwise succeeds and
\* returns those k arguments.
C6_AsStated ==
  pc = "done" => \A i \in 1..Len(trace) : LeafReachedAt(i) => PolicyOutcomeAt(i)

\* C6, amended: the same for every childless node but the auto-injected help
\* child.
C6_LeafPositionalPolicy ==
  pc = "done" =>
    \A i \in 1..Len(trace) :
      (LeafReachedAt(i) /\ ~IsInternalHelp(tree, trace[i].cur))
        => PolicyOutcomeAt(i)

\* A leaf that takes exactly one argument was reached with two.
C6_Witness ==
  /\ pc = "done"
  /\ Len(trace) >= 1
  /\ LeafReachedAt(Len(trace))
  /\ NodeAt(tree, trace[Len(trace)].cur).pac = [minArgs |-> 1, maxArgs |-> 1]
  /\ Len(trace[Len(trace)].residual) = 2
  /\ ErrorsIs(err, ErrTooManyPositionalArguments)

\* The same leaf was reached with no argument.
C6_WitnessTooFew ==
  /\ pc = "done"
  /\ Len(trace) >= 1
  /\ LeafReachedAt(Len(trace))
  /\ NodeAt(tree, trace[Len(trace)].cur).pac = [minArgs |-> 1, maxArgs |-> 1]
  /\ Len(trace[Len(trace)].residual) = 0
  /\ ErrorsIs(err, ErrTooFewPositionalArguments)

----------------------------------------------------------------------------
(* C7 *)

\* The errors of the parse: an option the flat parser refuses, a required
\* option that is missing, a positional policy violated at a leaf, a
\* subcommand name that is missing or unknown.
ParseTimeFailure ==
  \/ err.kind \in {"unknown option", "option is mandatory",
                   "expected subcommand name", "no such subcommand"}
  \/ ErrorsIs(err, ErrTooFewPositionalArguments)
  \/ ErrorsIs(err, ErrTooManyPositionalArguments)

\* C7, as stated: every failure of the parse is written exactly once to the
\* standard error, with the command and the pointer "See '<fullcmd> --help'",
\* before the error is returned.
C7_ReportedOnce ==
  (pc = "done" /\ ParseTimeFailure) =>
    /\ Len(stderr) = 1
    /\ stderr[1].cmd = ProgName
    /\ stderr[1].fullcmd # <<>>

----------------------------------------------------------------------------
(* C8 *)

\* The i-th call of getoptall parsed its arguments and the help field of
\* its node is true after the parse.
HelpFiredAt(i) ==
  trace[i].built /\ trace[i].parseErr = NoErr /\ trace[i].help

\* C8: whenever the parse at the node being resolved succeeds and the help
\* flag of the node has fired, the resolution ends there: it writes the help
\* of the current chain to the standard output and returns a nil error and
\* the command [HasPrintedHelp, no arguments], whatever the positional
\* policy of a leaf and whatever subcommand the arguments name.
C8_HelpTakesPrecedence ==
  \A i \in 1..Len(trace) :
    HelpFiredAt(i) =>
      /\ i = Len(trace)
      /\ pc \in {"returned", "done"}
      /\ err = NoErr
      /\ sc = SelectedCommand(HasPrintedHelpRecord, <<>>)
      /\ stdout = printHelp(tree, NodeAt(tree, trace[i].cur), trace[i].chain)

\* --help fired on a leaf below the root whose policy the arguments left
\* violate.
C8_Witness ==
  /\ FirstCallDone
  /\ Len(trace) = 2
  /\ HelpFiredAt(2)
  /\ Len(NodeAt(tree, trace[2].cur).subcommands) = 0
  /\ check(NodeAt(tree, trace[2].cur).pac, Len(trace[2].residual)) # NoErr
  /\ err = NoErr
  /\ sc = SelectedCommand(HasPrintedHelpRecord, <<>>)

----------------------------------------------------------------------------
(* C9 *)

\* The children of the node t that bear the internal help marker
Markers(t) ==
  {i \in 1..Len(t.subcommands) : t.subcommands[i].options = SubcommandHelpRecord}

Range(q) == {q[i] : i \in 1..Len(q)}

\* What Command did with the subcommands passed: one marker child more when
\* none of them is named help, none otherwise, and the rest as passed.
InjectedAsSpecified(t, given) ==
  /\ Cardinality(Markers(t)) = (IF containsHelp(given) THEN 0 ELSE 1)
  /\ Len(t.subcommands) = Len(given) + Cardinality(Markers(t))
  /\ {t.subcommands[i] : i \in (1..Len(t.subcommands)) \ Markers(t)}
       = Range(given)
  /\ \A i \in Markers(t) :
       /\ t.subcommands[i].name = "help"
       /\ t.subcommands[i].subcommands = <<>>
       /\ t.subcommands[i].pac = [minArgs |-> -1, maxArgs |-> MaxInt]

\* The i-th call of getoptall selected a caller's own subcommand named help.
OwnHelpSelectedAt(i) ==
  /\ LeafReachedAt(i)
  /\ NodeAt(tree, trace[i].cur).name = "help"
  /\ ~IsInternalHelp(tree, trace[i].cur)
  /\ check(NodeAt(tree, trace[i].cur).pac, Len(trace[i].residual)) = NoErr

\* C9: Command appends exactly one childless subcommand named help, with
\* the internal help marker for record and an unrestricted positional
\* policy, if and only if no subcommand passed to it is named help;
\* Subcommand and LeafSubcommand append none; and selecting a caller's own
\* subcommand named help returns its record, without a rewrite.
C9_AutoInjectedHelp ==
  /\ IF passed.constructor = "Command"
       THEN InjectedAsSpecified(tree, passed.subcommands)
       ELSE /\ Markers(tree) = {}
            /\ Len(tree.subcommands) = Len(passed.subcommands)
  /\ \A ptr \in Pointers(tree) : Len(ptr) >= 1 => Markers(NodeAt(tree, ptr)) = {}
  /\ pc = "done" =>
       \A i \in 1..Len(trace) :
         OwnHelpSelectedAt(i) =>
           /\ err = NoErr
           /\ sc = SelectedCommand(NodeAt(tree, trace[i].cur).options,
                                   trace[i].residual)
           /\ (~HasInternalHelp => rewrites = 0)

\* On a tree built by Command with a subcommand named help, `prog help x`
\* selected that subcommand.
C9_Witness ==
  /\ pc = "done"
  /\ passed.constructor = "Command"
  /\ containsHelp(passed.subcommands)
  /\ callArgs = << ProgName, "help", "x" >>
  /\ OwnHelpSelectedAt(Len(trace))
  /\ sc = SelectedCommand(Options("VerboseOptions", "own help"), << "x" >>)
  /\ rewrites = 0

\* On a tree built by Command without one, `prog help` went through the
\* marker child.
C9_WitnessInjected ==
  /\ pc = "done"
  /\ Cardinality(Markers(tree)) = 1
  /\ callArgs = << ProgName, "help" >>
  /\ rewrites = 1
  /\ err = NoErr

----------------------------------------------------------------------------
(* C10 *)

\* The children of the node are in ascending order of name.
SortedChildren(t) ==
  \A i, j \in 1..Len(t.subcommands) :
    i < j => ~StrLess(t.subcommands[j].name, t.subcommands[i].name)

\* The sequence of names a comes before b, or is b: the order of the
\* listing, one level of the tree after the other.
RECURSIVE NamesLeq(_, _)
NamesLeq(a, b) ==
  IF a = <<>> THEN TRUE
  ELSE IF b = <<>> THEN FALSE
  ELSE IF Head(a) = Head(b) THEN NamesLeq(Tail(a), Tail(b))
  ELSE StrLess(Head(a), Head(b))

\* The lines that list the subcommands, among those written
Listing(out) == SelectSeq(out, LAMBDA l : l.kind = "subcommand")

\* C10: every node built by Subcommand or Command keeps its children in
\* ascending order of name, whatever the order they were passed in and the
\* auto-injected help child included, and the listing of the subcommands in
\* the help shows them in that order at each level of the tree.
C10_SortedChildren ==
  /\ \A ptr \in Pointers(tree) : SortedChildren(NodeAt(tree, ptr))
  /\ LET listing == Listing(stdout) IN
     \A i, j \in 1..Len(listing) :
       i < j => NamesLeq(listing[i].names, listing[j].names)

\* The help of a tree whose subcommands were passed in descending order, at
\* the root and below it, was written with its listing.
C10_Witness ==
  /\ pc = "done"
  /\ Len(passed.subcommands) >= 2
  /\ StrLess(passed.subcommands[2].name, passed.subcommands[1].name)
  /\ Markers(tree) = {1}
  /\ Len(Listing(stdout)) >= 4
  /\ \E i \in 1..Len(stdout) :
       stdout[i].kind = "subcommand" /\ Len(stdout[i].names) = 2

----------------------------------------------------------------------------
(* C11 *)

\* The names of the children of the node are pairwise distinct.
DistinctChildren(t) ==
  \A i, j \in 1..Len(t.subcommands) :
    i # j => t.subcommands[i].name # t.subcommands[j].name

\* C11, as stated: in every tree built through Command, Subcommand and
\* LeafSubcommand the names of the children of each node are pairwise
\* distinct, so that the name of a subcommand matches at most one child.
C11_UniqueChildNames ==
  \A ptr \in Pointers(tree) : DistinctChildren(NodeAt(tree, ptr))

----------------------------------------------------------------------------
(* C12 *)

\* The counts of positional arguments that a policy accepts are those for
\* which the parse of a vector that leaves so many succeeds.
Accepted == flat.result.err = NoErr

\* C12: check returns ErrTooFewPositionalArguments when count < minArgs,
\* ErrTooManyPositionalArguments when count > maxArgs and nil otherwise; the
\* default policy accepts every count, NoPositionalArguments only 0,
\* AtLeastOnePositionalArgument every count >= 1, JustOnePositionalArgument
\* only 1, and the four are pairwise different; minArgs <= maxArgs in each;
\* and Parser.Getopt applies the check only when the flat parse succeeded.
C12_PolicyCheckAndPresets ==
  flat.pc = "parsed" =>
    LET pac == flat.parser.pac
        k == Len(flat.scan.args)
        e == flat.result.err
    IN
    /\ pac.minArgs <= pac.maxArgs
    /\ flat.scan.err # NoErr => e = flat.scan.err
    /\ flat.scan.err = NoErr =>
         /\ k < pac.minArgs => e = ErrTooFewPositionalArguments
         /\ k > pac.maxArgs => e = ErrTooManyPositionalArguments
         /\ (k >= pac.minArgs /\ k <= pac.maxArgs) => e = NoErr
         /\ flat.configs = <<>> => Accepted
         /\ flat.configs = << NoPositionalArguments >> => (Accepted <=> k = 0)
         /\ flat.configs = << AtLeastOnePositionalArgument >>
              => (Accepted <=> k >= 1)
         /\ flat.configs = << JustOnePositionalArgument >>
              => (Accepted <=> k = 1)
    /\ Cardinality({newPositionalArgumentsChecker,
                    [minArgs |-> NoPositionalArguments.minArgs,
                     maxArgs |-> NoPositionalArguments.maxArgs],
                    [minArgs |-> AtLeastOnePositionalArgument.minArgs,
                     maxArgs |-> AtLeastOnePositionalArgument.maxArgs],
                    [minArgs |-> JustOnePositionalArgument.minArgs,
                     maxArgs |-> JustOnePositionalArgument.maxArgs]}) = 4

\* A parser made with JustOnePositionalArgument parsed a vector with two
\* positional arguments.
C12_Witness ==
  /\ flat.pc = "parsed"
  /\ flat.configs = << JustOnePositionalArgument >>
  /\ flat.scan.err = NoErr
  /\ Len(flat.scan.args) = 2
  /\ flat.result.err = ErrTooManyPositionalArguments

\* A parser with a policy that the arguments violate met an unknown option.
C12_WitnessParseFailed ==
  /\ flat.pc = "parsed"
  /\ flat.configs = << NoPositionalArguments >>
  /\ flat.scan.err = NewError("unknown option")
  /\ Len(flat.scan.args) > 0
  /\ flat.result.err = flat.scan.err

----------------------------------------------------------------------------
(* C13 *)

\* The option record declares an option with the short name h or the long
\* name help.
DeclaresHelp(options) ==
  LET fields == StructFields(options.type) IN
  \E i \in 1..Len(fields) :
    /\ fields[i].doc # "-"
    /\ fields[i].short = << 104 >> \/ ToKebab(fields[i].name) = "help"

\* The options bound to the help field of the node, in the parser that the
\* i-th call of getoptall made
InjectedAt(i) ==
  LET parser == cmdNewParserWrapper(tree, NodeAt(tree, trace[i].cur),
                                    trace[i].chain)
  IN {parser.set[j] : j \in {k \in 1..Len(parser.set) :
                               parser.set[k].target = "help"}}

\* C13: in each pass, for each node that is resolved, one -h/--help option
\* bound to the help field of the node is registered if and only if the option
\* record of the node declares neither an option with the short name h nor
\* one with the long name help; when it declares either, none is registered
\* and no parse sets the help field of the node.
C13_HelpInjectionCondition ==
  /\ \A i \in 1..Len(trace) :
       trace[i].built =>
         LET options == NodeAt(tree, trace[i].cur).options
             first == IF Len(trace[i].args) >= 2 THEN trace[i].args[2] ELSE ""
         IN IF DeclaresHelp(options)
              THEN /\ InjectedAt(i) = {}
                   /\ ~trace[i].help
              ELSE /\ InjectedAt(i) = {[long |-> "help", short |-> 104,
                                        target |-> "help",
                                        mandatory |-> FALSE]}
                   /\ first = "--help" => trace[i].help
  /\ \A ptr \in help : ~DeclaresHelp(NodeAt(tree, ptr).options)

\* --help was given to a root whose record declares an option named help:
\* the parse took it, and the resolution went on to the subcommand.
C13_Witness ==
  /\ pc = "done"
  /\ tree.options.type = "OwnHelpOptions"
  /\ Len(tree.subcommands) > 0
  /\ callArgs = << ProgName, "--help", "list" >>
  /\ Len(trace) = 2
  /\ trace[1].built /\ trace[1].parseErr = NoErr
  /\ help = {}

\* --help was given to a root whose record declares the short name h only.
C13_WitnessShort ==
  /\ pc = "done"
  /\ tree.options.type = "HostOptions"
  /\ callArgs = << ProgName, "--help" >>
  /\ err = NewError("unknown option")
  /\ help = {}

----------------------------------------------------------------------------
(* C14 *)

\* The call is over and it has written the help of the chain of its last
\* call of getoptall.
HelpRendered ==
  /\ pc = "done"
  /\ err = NoErr
  /\ sc = SelectedCommand(HasPrintedHelpRecord, <<>>)
  /\ Len(trace) >= 1
  /\ Len(stdout) > 0

\* The nodes of the chain of the help written into whose parser -h/--help is
\* injected
InjectedChainNodes ==
  LET c == trace[Len(trace)].chain IN
  {i \in 1..Len(c) :
     LET o == NodeAt(tree, c[i]).options IN Builds(o) /\ ~DeclaresHelp(o)}

\* The lines written that list the option --help with the documentation of
\* the injected one
HelpOptionLines ==
  {i \in 1..Len(stdout) :
     /\ stdout[i].kind = "option"
     /\ stdout[i].names = << "help" >>
     /\ stdout[i].text = "Prints this help message"}

\* C14, as stated: when the help of a chain is written, the block of options
\* of every node of the chain into which -h/--help was injected lists that
\* option, with the documentation "Prints this help message".
C14_InjectedHelpListed ==
  HelpRendered =>
    Cardinality(HelpOptionLines) >= Cardinality(InjectedChainNodes)

----------------------------------------------------------------------------
(* C15 *)

ErrMissingDocumentation == NewError("there is a field without documentation")
ErrInvalidShortName ==
  NewError("the short tag's value must contain a single-byte string")

\* NewParser was called: on the fields of the struct it was given.
NewParserCalled == flat.pc # "new"
FlatFields == StructFields(flat.flags.type)

\* NewParser returned the error e and no parser.
NewParserFailedWith(e) ==
  /\ flat.pc = "failed"
  /\ flat.parser.err = e
  /\ flat.parser.set = <<>>
  /\ DOMAIN flat.parser.docs = {}

\* The fields with the doc tag "-" registered no option.
ExcludedFieldsSkipped ==
  \A i \in 1..Len(FlatFields) :
    FlatFields[i].doc = "-" =>
      /\ flat.parser.err # ErrInvalidShortName
      /\ \A j \in 1..Len(flat.parser.set) :
           flat.parser.set[j].long # ToKebab(FlatFields[i].name)
      /\ ToKebab(FlatFields[i].name) \notin flat.parser.required
      /\ ToKebab(FlatFields[i].name) \notin DOMAIN flat.parser.docs

C15_WitnessSkipped ==
  /\ flat.flags.type = "SkippedOptions"
  /\ flat.pc = "parser"
  /\ Len(flat.parser.set) = 1

----------------------------------------------------------------------------
(* C16 *)

\* The number of characters of a string given by its bytes: the bytes that
\* do not continue the encoding of a character
Chars(bytes) ==
  Cardinality({i \in 1..Len(bytes) : bytes[i] < 128 \/ bytes[i] > 191})

\* The character that a string of one character is
CodePoint(bytes) ==
  IF Len(bytes) = 1 /\ bytes[1] < 128 THEN bytes[1]
  ELSE IF Len(bytes) = 2 /\ bytes[1] \in 194..223 /\ bytes[2] \in 128..191
    THEN (bytes[1] - 192) * 64 + (bytes[2] - 128)
  ELSE RuneError

\* The fields with documentation and a short tag
ShortTagged ==
  {i \in 1..Len(FlatFields) :
     FlatFields[i].doc \notin {"", "-"} /\ FlatFields[i].short # <<>>}

\* NewParser made a parser in which the i-th field is the option with the
\* short name r.
RegisteredWithShort(i, r) ==
  /\ flat.parser.err # ErrInvalidShortName
  /\ flat.pc # "failed" =>
       \E j \in 1..Len(flat.parser.set) :
         /\ flat.parser.set[j].long = ToKebab(FlatFields[i].name)
         /\ flat.parser.set[j].short = r

\* C16, as stated: for every field with documentation and a short tag,
\* NewParser fails with the invalid-short-name error when the tag is not one
\* character long, and takes the tag, with that character for short name,
\* when it is.
C16_AsStated ==
  NewParserCalled =>
    \A i \in ShortTagged :
      IF Chars(FlatFields[i].short) # 1
        THEN NewParserFailedWith(ErrInvalidShortName)
        ELSE RegisteredWithShort(i, CodePoint(FlatFields[i].short))

\* C16, amended: the length is counted in bytes; a tag of one byte is taken,
\* with that byte for short name when it is ASCII and U+FFFD otherwise; and
\* the failure is that of the first field that fails.
C16_ShortNameValidation ==
  NewParserCalled =>
    \A i \in ShortTagged :
      IF Len(FlatFields[i].short) # 1
        THEN (\A j \in 1..(i - 1) :
                \/ FlatFields[j].doc = "-"
                \/ FlatFields[j].doc # "" /\ Len(FlatFields[j].short) <= 1)
             => NewParserFailedWith(ErrInvalidShortName)
        ELSE RegisteredWithShort(i, IF FlatFields[i].short[1] < 128
                                      THEN FlatFields[i].short[1] ELSE RuneError)

\* NewParser refused a short tag of one character that takes two bytes.
C16_Witness ==
  /\ flat.flags.type = "AccentedShortOptions"
  /\ Chars(FlatFields[1].short) = 1
  /\ NewParserFailedWith(ErrInvalidShortName)

\* NewParser took a short tag of one byte that is no character.
C16_WitnessHighByte ==
  /\ flat.flags.type = "HighByteShortOptions"
  /\ flat.pc = "parser"
  /\ flat.parser.set[1].short = RuneError

----------------------------------------------------------------------------
(* C17 *)

\* The i-th call of getoptall parsed its arguments on a node with children,
\* the help field of the node is false and no positional argument is left.
NoSubcommandNameAt(i) ==
  /\ trace[i].built
  /\ trace[i].parseErr = NoErr
  /\ ~trace[i].help
  /\ Len(NodeAt(tree, trace[i].cur).subcommands) > 0
  /\ Len(trace[i].residual) = 0

\* C17: when the node being resolved has children, its parse leaves no
\* positional argument, its help flag has not fired and the chain has two
\* nodes or more, Getopt fails with the error "expected subcommand name" and
\* writes no help; the help of the bare invocation is written only when the
\* chain is [root].
C17_MissingSubcommandName ==
  \A i \in 1..Len(trace) :
    NoSubcommandNameAt(i) =>
      /\ i = Len(trace)
      /\ pc \in {"returned", "done"}
      /\ IF Len(trace[i].chain) >= 2
           THEN /\ err = NewError("expected subcommand name")
                /\ sc = NilCommand
                /\ stdout = <<>>
                /\ stderr = << ErrLine("expected subcommand name", ProgName, "",
                                       fullcmd(tree, trace[i].chain)) >>
           ELSE /\ err = NoErr
                /\ sc = SelectedCommand(HasPrintedHelpRecord, <<>>)
                /\ Len(stdout) > 0

\* `prog run` failed: run has subcommands and none was named.
C17_Witness ==
  /\ pc = "done"
  /\ callArgs = << ProgName, "run" >>
  /\ Len(trace) = 2
  /\ NoSubcommandNameAt(2)
  /\ err = NewError("expected subcommand name")
  /\ stdout = <<>>

----------------------------------------------------------------------------
(* C18 *)

\* The number of arguments `help` after the program name
HelpTokens(a) == Cardinality({i \in 2..Len(a) : a[i] = "help"})

\* The depth of the tree below the node t
RECURSIVE Depth(_)
Depth(t) ==
  IF Len(t.subcommands) = 0 THEN 0
  ELSE LET below == {Depth(t.subcommands[i]) : i \in 1..Len(t.subcommands)}
       IN 1 + CHOOSE d \in below : \A e \in below : e <= d

\* A call of Getopt is in progress.
InCall == pc \in {"Getopt", "getoptall", "returned"}

\* What is left to do in a call: the `help` arguments still to rewrite and,
\* within a pass, the levels of the tree still to descend.
Remaining ==
  HelpTokens(argv) * (Depth(tree) + 4)
    + (CASE pc = "Getopt"    -> Depth(tree) + 3
         [] pc = "getoptall" -> Depth(tree) + 3 - Len(chain)
         [] pc = "returned"  -> 1
         [] OTHER            -> 0)

\* C18: every call of Getopt terminates: every step of a call leaves
\* strictly less to do, what is left being a natural number; the descent is
\* bounded by the depth of the tree, and every rewritten vector has strictly
\* fewer arguments `help` than the vector it was rewritten from, so that the
\* rewrites of a call are at most the arguments `help` of the caller's vector.
C18_Termination ==
  /\ [][InCall => Remaining' < Remaining]_vars
  /\ [][(pc = "returned" /\ pc' = "Getopt")
          => HelpTokens(argv') < HelpTokens(argv)]_vars
  /\ [](InCall =>
          /\ Remaining >= 1
          /\ Len(chain) <= Depth(tree) + 1
          /\ rewrites + HelpTokens(argv) <= HelpTokens(callArgs))

\* `prog help help` came to its end after one rewrite.
C18_Witness ==
  /\ pc = "done"
  /\ callArgs = << ProgName, "help", "help" >>
  /\ rewrites = 1
  /\ Len(trace) = 4

----------------------------------------------------------------------------
(* C19 *)

\* The node whose help was written
RenderedNode == NodeAt(tree, trace[Len(trace)].cur)

\* The order of the depth-first walk on the pointers
RECURSIVE PtrLess(_, _)
PtrLess(a, b) ==
  IF a = <<>> THEN b # <<>>
  ELSE IF b = <<>> THEN FALSE
  ELSE IF Head(a) = Head(b) THEN PtrLess(Tail(a), Tail(b))
  ELSE Head(a) < Head(b)

\* The entry of the listing for the descendant q of the node t
Entry(t, q) ==
  [kind |-> "subcommand", names |-> NamePath(t, q),
   text |-> NodeAt(t, q).description, flags |-> <<>>]

Descendants(t) == Pointers(t) \ { <<>> }
LeafDescendants(t) == {q \in Descendants(t) : IsLeaf(t, q)}

\* The header "Subcommands:" is written once when the node has subcommands.
HeaderOnce ==
  Cardinality({i \in 1..Len(stdout) : stdout[i].kind = "subcommands"})
    = (IF Len(RenderedNode.subcommands) > 0 THEN 1 ELSE 0)

\* C19, as stated: the help of a node lists every descendant subcommand of
\* the node, those with children as well as the leaves, each with its path
\* of names and its description, under one header "Subcommands:".
C19_AsStated ==
  HelpRendered =>
    /\ \A q \in Descendants(RenderedNode) :
         \E i \in 1..Len(stdout) : stdout[i] = Entry(RenderedNode, q)
    /\ HeaderOnce

\* C19, amended: the help of a node lists, depth-first, the descendants of
\* the node that have no children, and those only, each once with its path
\* of names and its description, under one header "Subcommands:".
C19_SubcommandIndex ==
  HelpRendered =>
    LET leaves == LeafDescendants(RenderedNode)
        listing == Listing(stdout)
    IN /\ Len(listing) = Cardinality(leaves)
       /\ \A q \in leaves :
            listing[1 + Cardinality({r \in leaves : PtrLess(r, q)})]
              = Entry(RenderedNode, q)
       /\ HeaderOnce

\* The help of a root with a subcommand that has subcommands was written.
C19_Witness ==
  /\ HelpRendered
  /\ trace[Len(trace)].cur = <<>>
  /\ Descendants(tree) # LeafDescendants(tree)
  /\ \E i \in 1..Len(stdout) :
       stdout[i].kind = "subcommand" /\ Len(stdout[i].names) = 2

----------------------------------------------------------------------------
(* C20 *)

\* c is a chain for the receiver p: it starts with the root, each element
\* is a child of the one before, and it ends with p.
ChainTo(c, p) ==
  /\ Len(c) >= 1
  /\ c[1] = <<>>
  /\ \A i \in 1..(Len(c) - 1) :
       \E k \in 1..Len(NodeAt(tree, c[i]).subcommands) :
         c[i + 1] = Append(c[i], k)
  /\ c[Len(c)] = p

ErrPanic == NewError("panic: called with zero length chain")
ErrZeroLengthArgv == NewError("passed a zero length argv")

\* C20: every call of getoptall made by Getopt has a chain that is not
\* empty, starts with the root, has each element a child of the one before
\* and ends with the receiver, so that the panic on the empty chain does not
\* happen and the command named in the messages is the root; Getopt on an
\* empty vector returns the error "passed a zero length argv" having done
\* nothing else; and the vector built for `help` has at least the program
\* name and --help.
C20_CoreNeverPanics ==
  /\ pc = "getoptall" => ChainTo(chain, cur)
  /\ \A i \in 1..Len(trace) : ChainTo(trace[i].chain, trace[i].cur)
  /\ err # ErrPanic
  /\ \A i \in 1..Len(stderr) : stderr[i].cmd = tree.name
  /\ (pc \in {"done", "getoptall", "returned"} /\ callArgs = <<>>) =>
       /\ pc = "done"
       /\ sc = NilCommand
       /\ err = ErrZeroLengthArgv
       /\ trace = <<>> /\ stdout = <<>> /\ stderr = <<>> /\ rewrites = 0
  /\ (pc # "idle" /\ rewrites >= 1) =>
       /\ Len(argv) >= 2
       /\ argv[1] = callArgs[1]
       /\ argv[Len(argv)] = "--help"

\* getoptall was called on a subcommand of a subcommand of the root.
C20_Witness ==
  /\ pc = "getoptall"
  /\ Len(chain) = 3
  /\ Len(trace) = 2

\* Getopt was called with the empty vector.
C20_WitnessEmptyArgv == pc = "done" /\ callArgs = <<>> /\ err = ErrZeroLengthArgv

\* Getopt called itself with the vector for [prog, help]: [prog, --help].
C20_WitnessRewritten ==
  /\ pc = "getoptall"
  /\ rewrites = 1
  /\ callArgs = << ProgName, "help" >>
  /\ argv = << ProgName, "--help" >>

----------------------------------------------------------------------------
(* C21 *)

\* Getopt has returned a selected command and a nil error to the caller.
Succeeded == pc = "done" /\ err = NoErr

\* The childless nodes of the tree but the auto-injected help child
UserLeaves ==
  {q \in Pointers(tree) : IsLeaf(tree, q) /\ ~IsInternalHelp(tree, q)}

\* C21: what Getopt returns with a nil error is either the HasPrintedHelp
\* record with no positional arguments or the record of a childless node of
\* the tree other than the auto-injected help child; it is never the record
\* of a node that has children and never the subcommandHelp marker.
C21_HelpMarkerNeverEscapes ==
  Succeeded =>
    /\ \/ sc = SelectedCommand(HasPrintedHelpRecord, <<>>)
       \/ \E q \in UserLeaves : sc.options = NodeAt(tree, q).options
    /\ sc.options # SubcommandHelpRecord
    /\ \A q \in Pointers(tree) :
         ~IsLeaf(tree, q) => sc.options # NodeAt(tree, q).options

\* The auto-injected help child was selected, and the caller got the
\* HasPrintedHelp record from the call that Getopt made of itself.
C21_Witness ==
  /\ Succeeded
  /\ rewrites >= 1
  /\ \E i \in 1..Len(trace) : IsInternalHelp(tree, trace[i].cur)
  /\ sc = SelectedCommand(HasPrintedHelpRecord, <<>>)

\* The caller got the record of a leaf of a tree that has the help child.
C21_WitnessLeaf ==
  /\ Succeeded
  /\ HasInternalHelp
  /\ \E q \in UserLeaves : q # <<>> /\ sc.options = NodeAt(tree, q).options

====
